---- MODULE Spec2Model ----
(***************************************************************************)
(* Model of the spell corrector of src/corretor.py (class Corretor and the *)
(* module-level functions words and edit_distance) and of the serving      *)
(* handler check_text of src/app.py.                                       *)
(*                                                                         *)
(* A Python str is a sequence of characters; a character is a one-element  *)
(* name.  The characters of the model, one or two per class the code       *)
(* distinguishes:                                                          *)
(*   "a" "b"      lowercase letters that are in _LETTERS                   *)
(*   "A" "B"      their uppercase forms                                    *)
(*   "ntilde"     U+00F1, a lowercase letter of the range U+00C0..U+00FF   *)
(*                of _WORD_RE that is not in _LETTERS;  "NTILDE" is        *)
(*                U+00D1, its uppercase form                               *)
(*   "times"      U+00D7, the multiplication sign: inside the range        *)
(*                U+00C0..U+00FF of _WORD_RE, yet \W for re.split          *)
(*   "1"          a digit: \w for re.split, outside _WORD_RE               *)
(*   ","          punctuation: \W, outside _WORD_RE                        *)
(***************************************************************************)
EXTENDS Integers, Sequences, FiniteSets, TLC

VARIABLES
    W,                \* self.W: the Counter, an insertion-ordered mapping,
                      \*   as a sequence of [w |-> word, f |-> count]
    N,                \* self.N
    W0,               \* history: self.W as __init__ left it
    op,               \* the call that produced the current state
    arg,              \* its argument
    ret,              \* its return value
    parts,            \* correct_sentence: local parts
    corrected_parts,  \* correct_sentence: local corrected_parts
    first             \* history: parts / corrected_parts of the call whose
                      \*   output is being corrected a second time

vars == <<W, N, W0, op, arg, ret, parts, corrected_parts, first>>

---------------------------------------------------------------------------
(* Bounds of the model *)

MaxCorpusWords == 2
MaxWordCorpusWords == 3
MaxWordLen == 2
MaxTextLen == 3
MaxDistLen == 3

---------------------------------------------------------------------------
(* Characters and str methods *)

LETTERS == {"a", "b"}

WORD_RE_CLASS == {"a", "b", "A", "B", "ntilde", "NTILDE", "times"}

NONWORD_CLASS == {",", "times"}

WORD_CLASS == {"a", "b", "A", "B", "ntilde", "NTILDE", "1"}

char_lower(c) ==
    CASE c = "A" -> "a"
      [] c = "B" -> "b"
      [] c = "NTILDE" -> "ntilde"
      [] OTHER -> c

char_upper(c) ==
    CASE c = "a" -> "A"
      [] c = "b" -> "B"
      [] c = "ntilde" -> "NTILDE"
      [] OTHER -> c

isupper(c) == c \in {"A", "B", "NTILDE"}

lower(s) == [i \in 1..Len(s) |-> char_lower(s[i])]

capitalize(s) ==
    [i \in 1..Len(s) |-> IF i = 1 THEN char_upper(s[1]) ELSE char_lower(s[i])]

RECURSIVE join(_)
join(ps) == IF ps = <<>> THEN <<>> ELSE Head(ps) \o join(Tail(ps))

---------------------------------------------------------------------------
(* Regular expressions *)

\* The end (exclusive) of the run of characters of class C that starts at i.
RECURSIVE RunEnd(_, _, _)
RunEnd(s, i, C) ==
    IF i > Len(s) \/ s[i] \notin C THEN i ELSE RunEnd(s, i + 1, C)

\* re.findall of the letter pattern (one or more of WORD_RE_CLASS) in s,
\* from position i.
RECURSIVE findall(_, _)
findall(s, i) ==
    IF i > Len(s) THEN <<>>
    ELSE LET e == RunEnd(s, i, WORD_RE_CLASS)
         IN  IF e = i THEN findall(s, i + 1)
             ELSE <<SubSeq(s, i, e - 1)>> \o findall(s, e)

words(text) == findall(lower(text), 1)

\* _WORD_RE.fullmatch(p)
fullmatch(p) == Len(p) > 0 /\ \A i \in 1..Len(p) : p[i] \in WORD_RE_CLASS

\* re.split(r'(\W+)', s) from position i: the text up to the next \W+ run,
\* then that run (the capturing group) and the split of what follows it.
RECURSIVE split(_, _)
split(s, i) ==
    LET e == RunEnd(s, i, WORD_CLASS)
        f == RunEnd(s, e, NONWORD_CLASS)
    IN  IF e > Len(s) THEN <<SubSeq(s, i, e - 1)>>
        ELSE <<SubSeq(s, i, e - 1), SubSeq(s, e, f - 1)>> \o split(s, f)

---------------------------------------------------------------------------
(* edit_distance *)

Min2(x, y) == IF x <= y THEN x ELSE y

Min3(x, y, z) == Min2(x, Min2(y, z))

\* The inner loop, for j in range(1, nb + 1); prev and cur are the two rows,
\* Python index k at position k + 1.
RECURSIVE inner_loop(_, _, _, _, _)
inner_loop(ai, b, prev, cur, j) ==
    IF j > Len(b) THEN cur
    ELSE LET cost == IF ai = b[j] THEN 0 ELSE 1
             v == Min3(prev[j + 1] + 1, cur[j] + 1, prev[j] + cost)
         IN  inner_loop(ai, b, prev, [cur EXCEPT ![j + 1] = v], j + 1)

\* Variant of outer_loop that leaves out the swap of the two rows.
RECURSIVE outer_loop_noswap(_, _, _, _, _)
outer_loop_noswap(a, b, prev, cur, i) ==
    IF i > Len(a) THEN prev
    ELSE outer_loop_noswap(a, b, prev,
                    inner_loop(a[i], b, prev, [cur EXCEPT ![1] = i], 1), i + 1)

\* The outer loop, for i in range(1, na + 1), ending with prev, cur = cur, prev;
\* the value is the row called prev when the loop ends.
RECURSIVE outer_loop(_, _, _, _, _)
outer_loop(a, b, prev, cur, i) ==
    IF i > Len(a) THEN prev
    ELSE outer_loop(a, b,
                    inner_loop(a[i], b, prev, [cur EXCEPT ![1] = i], 1),
                    prev, i + 1)

edit_distance(a, b) ==
    IF a = b THEN 0
    ELSE IF Len(a) = 0 THEN Len(b)
    ELSE IF Len(b) = 0 THEN Len(a)
    ELSE outer_loop(a, b, [k \in 1..(Len(b) + 1) |-> k - 1],
                    [k \in 1..(Len(b) + 1) |-> 0], 1)[Len(b) + 1]

---------------------------------------------------------------------------
(* The Counter *)

Keys(C) == {C[i].w : i \in 1..Len(C)}

Count(C, key) ==
    IF key \in Keys(C) THEN C[CHOOSE i \in 1..Len(C) : C[i].w = key].f ELSE 0

\* Counter(iterable): counts in order of first occurrence.
RECURSIVE Counter(_, _)
Counter(ws, acc) ==
    IF ws = <<>> THEN acc
    ELSE LET x == Head(ws)
         IN  Counter(Tail(ws),
                 IF x \in Keys(acc)
                 THEN [i \in 1..Len(acc) |->
                          IF acc[i].w = x THEN [w |-> x, f |-> acc[i].f + 1]
                          ELSE acc[i]]
                 ELSE Append(acc, [w |-> x, f |-> 1]))

RECURSIVE SumValues(_)
SumValues(C) == IF C = <<>> THEN 0 ELSE Head(C).f + SumValues(Tail(C))

---------------------------------------------------------------------------
(* Corretor *)

\* Corretor.__init__: exists says whether corpus_path names a file, txt is
\* its text.
Corretor_init(exists, txt, min_freq) ==
    LET C0 == IF exists THEN Counter(words(txt), <<>>) ELSE <<>>
        C1 == IF min_freq > 1
              THEN SelectSeq(C0, LAMBDA e : e.f >= min_freq) ELSE C0
        s  == SumValues(C1)
    IN  [W |-> C1, N |-> IF s = 0 THEN 1 ELSE s]

\* Variant of __getitem__: a mapping that stores the default it returns.
defaultdict_getitem(C, key) ==
    [value |-> Count(C, key),
     counter |-> IF key \in Keys(C) THEN C
                 ELSE Append(C, [w |-> key, f |-> 0])]

\* self.W[key]: Counter.__missing__ returns 0 and stores nothing.
counter_getitem(C, key) == [value |-> Count(C, key), counter |-> C]

\* The Counter after self.W[k] has been evaluated for every k of keys.
RECURSIVE after_lookups(_, _)
after_lookups(C, keys) ==
    IF keys = {} THEN C
    ELSE LET k == CHOOSE x \in keys : TRUE
         IN  after_lookups(counter_getitem(C, k).counter, keys \ {k})

\* Corretor.P: the float self.W[word] / self.N, kept as a fraction.
P(word) ==
    IF N # 0 THEN [num |-> counter_getitem(W, word).value, den |-> N]
    ELSE [num |-> 0, den |-> 1]

PLeq(x, y) == x.num * y.den <= y.num * x.den

edits1(word) ==
    LET n == Len(word)
        L(i) == SubSeq(word, 1, i)
        R(i) == SubSeq(word, i + 1, n)
        deletes    == {L(i) \o Tail(R(i)) : i \in 0..(n - 1)}
        transposes == {L(i) \o <<word[i + 2], word[i + 1]>> \o SubSeq(word, i + 3, n) :
                          i \in 0..(n - 2)}
        replaces   == {L(ic[1]) \o <<ic[2]>> \o Tail(R(ic[1])) :
                          ic \in (0..(n - 1)) \X LETTERS}
        inserts    == {L(ic[1]) \o <<ic[2]>> \o R(ic[1]) : ic \in (0..n) \X LETTERS}
    IN  deletes \cup transposes \cup replaces \cup inserts

edits2(word) == UNION {edits1(e1) : e1 \in edits1(word)}

known(words_set) == {w \in words_set : w \in Keys(W)}

\* Variant of the scan that keeps the first word it meets.
RECURSIVE closest_scan_first(_, _, _, _)
closest_scan_first(word, i, best, best_d) ==
    IF i > Len(W) THEN best
    ELSE LET d == edit_distance(word, W[i].w)
         IN  IF best = <<>>
             THEN IF d = 0 THEN W[i].w
                  ELSE closest_scan_first(word, i + 1, W[i].w, d)
             ELSE closest_scan_first(word, i + 1, best, best_d)

\* The loop of _closest_by_edit_distance over self.W, from its i-th key;
\* best = <<>> stands for None (no key of the Counter is empty).
RECURSIVE closest_scan(_, _, _, _)
closest_scan(word, i, best, best_d) ==
    IF i > Len(W) THEN best
    ELSE LET d == edit_distance(word, W[i].w)
         IN  IF best = <<>> \/ d < best_d
             THEN IF d = 0 THEN W[i].w
                  ELSE closest_scan(word, i + 1, W[i].w, d)
             ELSE closest_scan(word, i + 1, best, best_d)

closest_by_edit_distance(word) == closest_scan(word, 1, <<>>, 0)

candidates(word) ==
    IF word \in Keys(W) THEN {word}
    ELSE LET c1 == known(edits1(word))
         IN  IF c1 # {} THEN c1
             ELSE LET c2 == known(edits2(word))
                  IN  IF c2 # {} THEN c2
                      ELSE LET closest == closest_by_edit_distance(word)
                           IN  IF closest # <<>> THEN {closest} ELSE {word}

SetMin(S) == CHOOSE x \in S : \A y \in S : x <= y

\* correction: the list closest_cands, as a set.
closest_cands(low) ==
    LET cands == candidates(low)
        min_dist == SetMin({edit_distance(low, w) : w \in cands})
    IN  {w \in cands : edit_distance(low, w) = min_dist}

\* Variant of correction that ranks the candidates by frequency alone.
correction_by_frequency(word) ==
    IF word = <<>> THEN {word}
    ELSE LET cands == candidates(lower(word))
             bests == {w \in cands : \A v \in cands : PLeq(P(v), P(w))}
         IN  {IF isupper(word[1]) THEN capitalize(best) ELSE best : best \in bests}

\* Corretor.correction: the values it can return.  max(closest_cands, key=self.P)
\* returns the first candidate of highest P in the iteration order of a set of
\* str, which the hash seed of the process decides: any of them.
correction(word) ==
    IF word = <<>> THEN {word}
    ELSE LET low == lower(word)
             cc == closest_cands(low)
             bests == IF cc # {}
                      THEN {w \in cc : \A v \in cc : PLeq(P(v), P(w))}
                      ELSE {word}
         IN  {IF isupper(word[1]) THEN capitalize(best) ELSE best : best \in bests}

\* corrections[p] = cand
DictPut(d, k, v) == [x \in (DOMAIN d) \cup {k} |-> IF x = k THEN v ELSE d[x]]

\* Variant of the loop that compares cand and p case-sensitively.
RECURSIVE sentence_loop_cased(_, _, _, _, _)
sentence_loop_cased(ps, i, cps, corrections, pick) ==
    IF i > Len(ps) THEN [corrected_parts |-> cps, corrections |-> corrections]
    ELSE LET p == ps[i]
         IN  IF fullmatch(p)
             THEN LET cand == pick[p]
                  IN  sentence_loop_cased(ps, i + 1, Append(cps, cand),
                          IF cand # p
                          THEN DictPut(corrections, p, cand) ELSE corrections,
                          pick)
             ELSE sentence_loop_cased(ps, i + 1, Append(cps, p), corrections, pick)

\* The loop of correct_sentence, for p in parts, from the i-th part; pick[p] is
\* the value self.correction(p) returns in this process.
RECURSIVE sentence_loop(_, _, _, _, _)
sentence_loop(ps, i, cps, corrections, pick) ==
    IF i > Len(ps) THEN [corrected_parts |-> cps, corrections |-> corrections]
    ELSE LET p == ps[i]
         IN  IF fullmatch(p)
             THEN LET cand == pick[p]
                  IN  sentence_loop(ps, i + 1, Append(cps, cand),
                          IF lower(cand) # lower(p)
                          THEN DictPut(corrections, p, cand) ELSE corrections,
                          pick)
             ELSE sentence_loop(ps, i + 1, Append(cps, p), corrections, pick)

\* The parts of text that correct_sentence hands to self.correction.
WordParts(ps) == {ps[i] : i \in {j \in 1..Len(ps) : fullmatch(ps[j])}}

\* The results self.correction can give for the word parts, one per part.
Picks(ps) ==
    LET ws == WordParts(ps)
        outs == [p \in ws |-> correction(p)]
    IN  {f \in [ws -> UNION {outs[p] : p \in ws}] : \A p \in ws : f[p] \in outs[p]}

\* Corretor.correct_sentence, given the results of self.correction.
correct_sentence(text, pick) ==
    LET ps == split(text, 1)
        r  == sentence_loop(ps, 1, <<>>, <<>>, pick)
    IN  [parts |-> ps, corrected_parts |-> r.corrected_parts,
         corrected |-> join(r.corrected_parts), corrections |-> r.corrections]

---------------------------------------------------------------------------
(* Inputs *)

StringsUpTo(C, n) == UNION {[1..k -> C] : k \in 0..n}

Lexicon == {<<"a">>, <<"A">>, <<"b", "a">>, <<"a", "times">>}

WordLexicon == Lexicon \cup {<<"ntilde">>}

\* The corpus file: words of the lexicon, each followed by a comma.
RECURSIVE CorpusText(_)
CorpusText(toks) ==
    IF toks = <<>> THEN <<>> ELSE Head(toks) \o <<",">> \o CorpusText(Tail(toks))

WordInputs == StringsUpTo({"a", "b", "A", "ntilde"}, MaxWordLen)

TextInputs == StringsUpTo({"a", "A", "times", "1", ","}, MaxTextLen)

DistInputs == StringsUpTo({"a", "b"}, MaxDistLen)

None == <<>>

---------------------------------------------------------------------------
(* The state machine *)

\* sc = Corretor(corpus_path=...), the corpus holding at most n words of lex.
Construct(lex, n) ==
    /\ \E exists \in BOOLEAN, toks \in StringsUpTo(lex, n), min_freq \in 1..2 :
          LET c == Corretor_init(exists, CorpusText(toks), min_freq)
          IN  W = c.W /\ N = c.N
    /\ W0 = W
    /\ op = "idle" /\ arg = None /\ ret = None
    /\ parts = None /\ corrected_parts = None /\ first = None

PCall(word) ==
    /\ op = "idle"
    /\ op' = "P" /\ arg' = word /\ ret' = P(word)
    /\ W' = after_lookups(W, {word})
    /\ parts' = None /\ corrected_parts' = None /\ first' = None
    /\ UNCHANGED <<N, W0>>

CandidatesCall(word) ==
    /\ op = "idle"
    /\ op' = "candidates" /\ arg' = word /\ ret' = candidates(word)
    /\ parts' = None /\ corrected_parts' = None /\ first' = None
    /\ UNCHANGED <<W, N, W0>>

CorrectionCall(word) ==
    /\ op = "idle"
    /\ \E r \in correction(word) : ret' = r
    /\ op' = "correction" /\ arg' = word
    /\ W' = after_lookups(W, IF word = <<>> THEN {} ELSE closest_cands(lower(word)))
    /\ parts' = None /\ corrected_parts' = None /\ first' = None
    /\ UNCHANGED <<N, W0>>

\* app.check_text on request.json['text'] = text
Handle(text, name, hist) ==
    /\ \E pick \in Picks(split(text, 1)) :
          LET r == correct_sentence(text, pick)
          IN  /\ parts' = r.parts
              /\ corrected_parts' = r.corrected_parts
              /\ ret' = [original |-> text, corrected |-> r.corrected,
                         changes |-> r.corrections,
                         is_correct |-> (Cardinality(DOMAIN r.corrections) = 0)]
    /\ op' = name /\ arg' = text /\ first' = hist
    /\ W' = after_lookups(W, UNION {closest_cands(lower(p)) :
                                       p \in WordParts(split(text, 1))})
    /\ UNCHANGED <<N, W0>>

check_text(text) == op = "idle" /\ Handle(text, "check_text", None)

\* The client posts the corrected text of the last response again.
check_text_again ==
    /\ op = "check_text"
    /\ Handle(ret.corrected, "check_text_again",
              [parts |-> parts, corrected_parts |-> corrected_parts])

\* The call returns; the process waits for the next one.
Return ==
    /\ op # "idle"
    /\ op' = "idle" /\ arg' = None /\ ret' = None
    /\ parts' = None /\ corrected_parts' = None /\ first' = None
    /\ UNCHANGED <<W, N, W0>>

Init == Construct(Lexicon, MaxCorpusWords)

Next ==
    \/ \E word \in WordInputs : PCall(word)
    \/ \E word \in WordInputs : CandidatesCall(word)
    \/ \E word \in WordInputs : CorrectionCall(word)
    \/ \E text \in TextInputs : check_text(text)
    \/ check_text_again
    \/ Return

Spec == Init /\ [][Next]_vars

\* The word-level interface alone, over a larger corpus.
InitWord == Construct(WordLexicon, MaxWordCorpusWords)

NextWord ==
    \/ \E word \in WordInputs : PCall(word)
    \/ \E word \in WordInputs : CandidatesCall(word)
    \/ \E word \in WordInputs : CorrectionCall(word)
    \/ Return

SpecWord == InitWord /\ [][NextWord]_vars

\* edit_distance is a module-level function: called with the default Corretor().
InitDistance ==
    /\ W = Corretor_init(FALSE, <<>>, 1).W /\ N = Corretor_init(FALSE, <<>>, 1).N
    /\ W0 = W
    /\ op = "idle" /\ arg = None /\ ret = None
    /\ parts = None /\ corrected_parts = None /\ first = None

EditDistanceCall(a, b) ==
    /\ op = "idle"
    /\ op' = "edit_distance" /\ arg' = <<a, b>> /\ ret' = edit_distance(a, b)
    /\ UNCHANGED <<W, N, W0, parts, corrected_parts, first>>

NextDistance ==
    \/ \E a \in DistInputs, b \in DistInputs : EditDistanceCall(a, b)
    \/ Return

SpecDistance == InitDistance /\ [][NextDistance]_vars

---------------------------------------------------------------------------
(* Reference definitions used by the properties *)

\* The strings one insertion, deletion or substitution away from s, over the
\* characters A and no longer than n.
OneEdit(s, A, n) ==
    {SubSeq(s, 1, i - 1) \o SubSeq(s, i + 1, Len(s)) : i \in 1..Len(s)}
    \cup {[s EXCEPT ![ic[1]] = ic[2]] : ic \in (1..Len(s)) \X A}
    \cup (IF Len(s) < n
          THEN {SubSeq(s, 1, ic[1]) \o <<ic[2]>> \o SubSeq(s, ic[1] + 1, Len(s)) :
                   ic \in (0..Len(s)) \X A}
          ELSE {})

\* The least k such that b is in reached after k more single edits.
RECURSIVE EditSteps(_, _, _, _, _)
EditSteps(reached, b, k, A, n) ==
    IF b \in reached THEN k
    ELSE EditSteps(reached \cup UNION {OneEdit(s, A, n) : s \in reached},
                   b, k + 1, A, n)

\* The Levenshtein distance by its definition: the length of a shortest script
\* of single-character insertions, deletions and substitutions from a to b.
Levenshtein(a, b) ==
    EditSteps({a}, b, 0, {a[i] : i \in 1..Len(a)} \cup {b[i] : i \in 1..Len(b)},
              IF Len(a) >= Len(b) THEN Len(a) ELSE Len(b))

\* Letters, as str.isalpha knows them.
Letters == {"a", "b", "A", "B", "ntilde", "NTILDE"}

IsLetter(c) == c \in Letters

NonLetters(s) == SelectSeq(s, LAMBDA c : ~IsLetter(c))

\* c with its first letter left alone or put in upper case.
Recapitalized(c) ==
    {c} \cup (IF c = <<>> THEN {} ELSE {[c EXCEPT ![1] = char_upper(c[1])]})

Dist(low, c) == edit_distance(low, c)

IsSentenceCall == op \in {"check_text", "check_text_again"}

\* The positions of text at which a maximal run of letters starts.
LetterRunStarts(text) ==
    {i \in 1..Len(text) :
        IsLetter(text[i]) /\ (i = 1 \/ ~IsLetter(text[i - 1]))}

LetterRunAt(text, i) == SubSeq(text, i, RunEnd(text, i, Letters) - 1)

\* The position in the text at which the i-th part starts.
RECURSIVE PartStart(_, _)
PartStart(ps, i) == IF i = 1 THEN 1 ELSE PartStart(ps, i - 1) + Len(ps[i - 1])

WordIndices == {i \in 1..Len(parts) : fullmatch(parts[i])}

---------------------------------------------------------------------------
(* Properties *)

\* C1: correction returns, up to re-capitalization of the first letter, a
\* candidate of the lowercased word at the minimum edit distance over the
\* candidate set, and no candidate at that distance has a higher count: a
\* candidate farther away is never returned, whatever its count.
C1_DistanceThenFrequency ==
    (op = "correction" /\ arg # <<>>) =>
        LET low == lower(arg)
            cands == candidates(low)
        IN  \E c \in cands :
                /\ ret \in Recapitalized(c)
                /\ \A c2 \in cands :
                      /\ Dist(low, c) <= Dist(low, c2)
                      /\ (Dist(low, c) = Dist(low, c2) => Count(W, c2) <= Count(W, c))

\* C1 witness: a candidate farther away with a strictly higher count was passed
\* over.
C1_Witness ==
    /\ op = "correction" /\ arg # <<>>
    /\ \E c2 \in candidates(lower(arg)) :
          /\ Dist(lower(arg), c2) > Dist(lower(arg), lower(ret))
          /\ Count(W, c2) > Count(W, lower(ret))
          /\ Count(W, lower(ret)) > 0

\* C2 (as claimed): every maximal run of letters of the text, also one next to
\* digits, is a part that check_text hands to correction, and the result stands
\* at the run's place.
C2_EveryLetterRunCorrected ==
    IsSentenceCall =>
        \A s \in LetterRunStarts(arg) :
            \E i \in WordIndices :
                /\ PartStart(parts, i) = s
                /\ parts[i] = LetterRunAt(arg, s)
                /\ corrected_parts[i] \in correction(parts[i])

\* C3 (as claimed): the parts of the text are neither lost nor reordered, a part
\* that is not made of letters is copied, and the non-letter characters of the
\* corrected text are those of the text, in order.
C3_NonWordsVerbatim ==
    IsSentenceCall =>
        /\ join(parts) = arg
        /\ \A i \in 1..Len(parts) :
              (\E k \in 1..Len(parts[i]) : ~IsLetter(parts[i][k]))
                  => corrected_parts[i] = parts[i]
        /\ NonLetters(ret.corrected) = NonLetters(arg)

\* C4: the change map holds (p, correction of p) for exactly the word tokens p
\* whose correction differs from p ignoring case, keyed by p as written.
C4_ChangeMap ==
    IsSentenceCall =>
        /\ Len(corrected_parts) = Len(parts)
        /\ \A i \in WordIndices :
              /\ corrected_parts[i] \in correction(parts[i])
              /\ (parts[i] \in DOMAIN ret.changes)
                    <=> (lower(corrected_parts[i]) # lower(parts[i]))
              /\ (parts[i] \in DOMAIN ret.changes)
                    => ret.changes[parts[i]] = corrected_parts[i]
        /\ \A k \in DOMAIN ret.changes : \E i \in WordIndices : parts[i] = k

\* C4 witness: one word token is in the change map and another is not.
C4_Witness ==
    /\ IsSentenceCall
    /\ \E i \in WordIndices : parts[i] \in DOMAIN ret.changes
    /\ \E j \in WordIndices : parts[j] \notin DOMAIN ret.changes

\* C5 (as claimed): when every token of a text was corrected to a vocabulary
\* entry, correcting the corrected text again gives it back with no change.
C5_Idempotent ==
    (/\ op = "check_text_again"
     /\ \A i \in 1..Len(first.parts) :
           fullmatch(first.parts[i]) => lower(first.corrected_parts[i]) \in Keys(W))
        => (ret.corrected = arg /\ DOMAIN ret.changes = {})

\* C6 (as claimed): with an empty vocabulary candidates returns the word itself,
\* correction returns the word and check_text the text, with no change recorded.
C6_EmptyVocabularyNoOp ==
    W = <<>> =>
        /\ op = "candidates" => ret = {arg}
        /\ op = "correction" => ret = arg
        /\ IsSentenceCall => (ret.corrected = arg /\ DOMAIN ret.changes = {})

\* C7: edit_distance is the Levenshtein distance; it is 0 on equal strings, the
\* length of a against the empty string, and symmetric.
C7_EditDistanceIsLevenshtein ==
    op = "edit_distance" =>
        LET a == arg[1]
            b == arg[2]
        IN  /\ ret = Levenshtein(a, b)
            /\ a = b => ret = 0
            /\ b = <<>> => ret = Len(a)
            /\ ret = edit_distance(b, a)

\* C7 witness: two different non-empty strings of different lengths, two or more
\* edits apart.
C7_Witness ==
    /\ op = "edit_distance"
    /\ arg[1] # <<>> /\ arg[2] # <<>> /\ Len(arg[1]) # Len(arg[2])
    /\ ret >= 2

\* C8: the vocabulary is what the constructor built, whatever was called: the
\* same keys and counts, each key once, every count positive and at most N, N
\* their sum (1 when there is none), and P of an unknown word 0.
C8_VocabularyReadOnly ==
    /\ W = W0
    /\ \A i \in 1..Len(W) : W[i].f \in Nat \ {0} /\ W[i].f <= N
    /\ \A i, j \in 1..Len(W) : W[i].w = W[j].w => i = j
    /\ N = (IF W = <<>> THEN 1 ELSE SumValues(W))
    /\ (op = "P" /\ arg \notin Keys(W)) => ret.num = 0

\* C8 witness: back from a lookup of a word that is not in a non-empty
\* vocabulary.
C8_Witness ==
    /\ W # <<>> /\ op \in {"P", "correction"} /\ arg # <<>>
    /\ lower(arg) \notin Keys(W)

\* C9 (as claimed): a response with is_correct = true carries the text unchanged.
C9_CorrectMeansUnchanged ==
    (IsSentenceCall /\ ret.is_correct) => ret.corrected = ret.original

\* C10 (as claimed): for a word that is not in a non-empty vocabulary, correction
\* returns a vocabulary word at the minimum edit distance over the whole
\* vocabulary.
C10_ClosestInVocabulary ==
    (op = "correction" /\ arg # <<>> /\ W # <<>> /\ lower(arg) \notin Keys(W)) =>
        /\ lower(ret) \in Keys(W)
        /\ \A v \in Keys(W) : Dist(lower(arg), lower(ret)) <= Dist(lower(arg), v)

\* C10 (amended): the word returned is a vocabulary word at the minimum edit
\* distance over the candidates of the first stage that has any; that is the
\* minimum over the whole vocabulary when the full scan is reached, and when
\* known(edits1) is not empty and every vocabulary word is spelled with the
\* letters of _LETTERS.
C10_ClosestInStage ==
    (op = "correction" /\ arg # <<>> /\ W # <<>> /\ lower(arg) \notin Keys(W)) =>
        LET low == lower(arg)
            c1 == known(edits1(low))
            c2 == known(edits2(low))
            Closest(S) == \A v \in S : Dist(low, lower(ret)) <= Dist(low, v)
        IN  /\ lower(ret) \in Keys(W)
            /\ Closest(candidates(low))
            /\ (c1 = {} /\ c2 = {}) => Closest(Keys(W))
            /\ (c1 # {} /\ \A v \in Keys(W) : \A k \in 1..Len(v) : v[k] \in LETTERS)
                  => Closest(Keys(W))

\* C10 witness: the full scan was reached and returned a word that is not the
\* first of the vocabulary.
C10_Witness ==
    /\ op = "correction" /\ arg # <<>> /\ W # <<>> /\ lower(arg) \notin Keys(W)
    /\ known(edits1(lower(arg))) = {} /\ known(edits2(lower(arg))) = {}
    /\ lower(ret) # W[1].w

====
